---- MODULE Spec2Model ----
(***************************************************************************)
(* ng-effects: effect initialisation and binding pipeline.                 *)
(*                                                                         *)
(* ConnectFactory.connect (connect-factory.ts) resolves the host           *)
(* initialisers; resolving InitEffects (init-effects.ts) runs its          *)
(* constructor, which calls run(); run() walks the EFFECTS metadata and    *)
(* either calls initEffect at once or behind viewRenderer.whenRendered().  *)
(* ngOnDestroy unsubscribes the aggregate Subscription.                    *)
(*                                                                         *)
(* JavaScript is single threaded: every handler below runs to completion,  *)
(* so a handler is one action and its nested calls are operators on a      *)
(* record of the whole program state (the "world").                        *)
(***************************************************************************)
EXTENDS Integers, Sequences, FiniteSets, TLC

(***************************************************************************)
(* Bounds of the model.                                                    *)
(***************************************************************************)
NumEffects == 2      \* declared effects per host class
MaxEmits == 2        \* stream emissions in one behaviour
MaxRepeats == 2      \* times connect, render commit and destroy may each reach one host

Hosts == {"A", "B"}
Keys == {"x", "y", "z"}          \* property names an effect may name
OwnKeys == {"x", "y"}            \* own properties the host initialised
Absent == -1                     \* "no such property" / "key not present"
Undefined == -2                  \* the value undefined, held by an own property
Vals == {1, 2}                   \* the values streams emit
Default == 0                     \* the default value the host constructor assigns
\* The host as its constructor leaves it before connect(this): x holds a
\* value, y holds undefined and is an own property all the same, z was
\* never assigned.
NewHost == [k \in Keys |-> IF k = "x" THEN Default ELSE IF k = "y" THEN Undefined ELSE Absent]
Watchers == {"w1", "w2"}         \* subscribers of the cells of a projection

VARIABLES
    hosts,           \* host instances that exist in this behaviour
    provided,        \* hosts whose injector provides the collaborators of InitEffects
    declared,        \* the effects as declared on the class, in declaration order
    strict,          \* USE_STRICT_EFFECTS is provided
    effects,         \* EFFECTS: the resolved EffectMetadata[], in declaration order
    currentContext,  \* the shared currentContext set (internals/constants)
    instance,        \* instance[h]: InitEffects of h was constructed by the injector
    subs,            \* subs[h][s]: the Subscription of the s-th InitEffects constructed for h
    runs,            \* runs[h]: passes of run() made for h; each pass makes its own args
    rootRenderer,    \* the injector resolves ViewRenderer above the hosts: one for all
    listeners,       \* listeners[r]: live subscribers of whenRendered().pipe(take(1)) of renderer r
    fired,           \* fired[r]: the render gate of renderer r has fired
    gateFailed,      \* gateFailed[r]: the render-timing stream of r ended with an error
    streams,         \* streams[h]: live observers of effect streams (their args)
    sources,         \* sources[h]: effects whose function returned a stream
    hostContext,     \* hostContext[h]: the host's properties
    cells,           \* cells[h]: the properties of h its reactive projection has a cell for
    watchers,        \* watchers[h][k]: subscribers of cell k, in subscription order
    heard,           \* heard[h]: what the handler running now has notified to them
    observed,        \* observed[h]: what each effect call found, in call order
    cdr,             \* cdr[h]: calls received by the change-detection handle
    adapterCalls,    \* adapterCalls[h]: calls of handler.next(value, options)
    console,         \* the global error channel
    timers,          \* exceptions rxjs has scheduled to rethrow from a timer, in order
    invoked,         \* invoked[h]: effect functions called, in call order
    teardownCalls,   \* teardownCalls[h][i]: calls of the teardown effect i returned
    outcome,         \* outcome[h]: how the last connect(h) ended
    connects,        \* connects[h]: connect(h) calls made
    commits,         \* commits[h]: render commits seen
    destroys,        \* destroys[h]: destroy notifications delivered
    emitted,         \* emitted[h][i]: values the stream of effect i has emitted
    destroyedUnrendered, \* destroyedUnrendered[h]: h was destroyed before any commit
    lastEmit         \* the last stream emission and what it found

vars == <<hosts, provided, declared, strict, effects, rootRenderer, currentContext, instance, subs, listeners, fired,
          gateFailed, runs,
          streams, sources, hostContext, cells, watchers, heard, observed, cdr,
          adapterCalls, console, timers, invoked, teardownCalls, outcome, connects, commits, destroys, emitted,
          destroyedUnrendered, lastEmit>>

\* What no handler changes: the hosts, their providers and the declarations.
config == <<hosts, provided, declared, strict, effects, rootRenderer>>

\* InitEffects asks the injector for ViewRenderer without @Host(), and
\* whenRendered() takes no host: the gate an InitEffects subscribes to is the
\* gate of the renderer it was given, its host's own or one above all hosts.
Renderers == Hosts \cup {"root"}
Renderer(h) == IF rootRenderer THEN "root" ELSE h

(***************************************************************************)
(* The world: all program state as one record, threaded through the        *)
(* operators that model nested calls.  thrown is the pending exception.    *)
(***************************************************************************)
World ==
    [currentContext |-> currentContext, instance |-> instance, subs |-> subs, runs |-> runs,
     listeners |-> listeners, fired |-> fired, gateFailed |-> gateFailed, streams |-> streams,
     sources |-> sources, hostContext |-> hostContext, cells |-> cells,
     watchers |-> watchers, heard |-> [h \in Hosts |-> <<>>], observed |-> observed,
     cdr |-> cdr,
     adapterCalls |-> adapterCalls, console |-> console, timers |-> timers,
     invoked |-> invoked,
     teardownCalls |-> teardownCalls, outcome |-> outcome, thrown |-> FALSE]

Commit(W) ==
    /\ currentContext' = W.currentContext
    /\ instance' = W.instance
    /\ subs' = W.subs
    /\ runs' = W.runs
    /\ listeners' = W.listeners
    /\ fired' = W.fired
    /\ gateFailed' = W.gateFailed
    /\ streams' = W.streams
    /\ sources' = W.sources
    /\ hostContext' = W.hostContext
    /\ cells' = W.cells
    /\ watchers' = W.watchers
    /\ heard' = W.heard
    /\ observed' = W.observed
    /\ cdr' = W.cdr
    /\ adapterCalls' = W.adapterCalls
    /\ console' = W.console
    /\ timers' = W.timers
    /\ invoked' = W.invoked
    /\ teardownCalls' = W.teardownCalls
    /\ outcome' = W.outcome

Range(s) == {s[k] : k \in 1..Len(s)}

(***************************************************************************)
(* Values a stream can emit: a scalar, or a (partial) object over Keys.    *)
(***************************************************************************)
Scalar(n) == [isObject |-> FALSE, scalar |-> n, fields |-> [k \in Keys |-> Absent]]
Object(f) == [isObject |-> TRUE, scalar |-> Absent, fields |-> f]

(***************************************************************************)
(* rxjs Subscription, as used for InitEffects.subs.  A member is what was  *)
(* passed to subs.add: a teardown function or subscription returned by an  *)
(* effect, the engine's subscription to an effect's stream, or a listener  *)
(* of the render gate.  Execute is what unsubscribing one member does; a   *)
(* canceller is a teardown function that itself calls subs.unsubscribe().  *)
(***************************************************************************)
\* The member that args a stand behind: what the call made with a returned,
\* the subscription to the stream it returned, or its listener at the gate.
Member(k, a) == [kind |-> k, effect |-> a.effect.id, run |-> a.run]

\* new Subscription()
NewSubscription == [closed |-> FALSE, teardowns |-> <<>>]

\* this.subs of the InitEffects the injector holds for h, or of the one last
\* constructed for h when the injector holds none.
thisSubs(W, h) == Len(W.subs[h])

\* A Subscription is named by its host h and the number s of the InitEffects
\* that made it; a canceller cancels the Subscription it was added to.
RECURSIVE unsubscribe(_, _, _)
RECURSIVE Execute(_, _, _, _)
Execute(W, h, s, m) ==
    CASE m.kind \in {"teardown", "subscription"} ->
            [W EXCEPT !.teardownCalls[h][m.effect] = @ + 1]
      [] m.kind = "canceller" ->
            unsubscribe([W EXCEPT !.teardownCalls[h][m.effect] = @ + 1], h, s)
      [] m.kind = "stream" ->
            [W EXCEPT !.streams[h] = {a \in @ : Member("stream", a) # m}]
      [] m.kind = "listener" ->
            [W EXCEPT !.listeners[Renderer(h)] =
                   SelectSeq(@, LAMBDA a : a.hostContext # h \/ Member("listener", a) # m)]

RECURSIVE ExecuteAll(_, _, _, _)
ExecuteAll(W, h, s, ms) ==
    IF ms = <<>> THEN W
    ELSE ExecuteAll(Execute(W, h, s, Head(ms)), h, s, Tail(ms))

\* subs.add(member): a closed Subscription tears the member down at once.
subsAdd(W, h, s, m) ==
    IF W.subs[h][s].closed THEN Execute(W, h, s, m)
    ELSE [W EXCEPT !.subs[h][s].teardowns = Append(@, m)]

\* subs.unsubscribe(): idempotent; marks closed, drops the members, runs each.
unsubscribe(W, h, s) ==
    IF W.subs[h][s].closed THEN W
    ELSE ExecuteAll([W EXCEPT !.subs[h][s] = [closed |-> TRUE, teardowns |-> <<>>]],
                    h, s, W.subs[h][s].teardowns)

(***************************************************************************)
(* The Reactive State Projection (State<T>): one cell per own property of  *)
(* the host at projection time.  A cell keeps no value of its own: to read *)
(* it is to read the host property.                                        *)
(***************************************************************************)
NoProjection == {}
Projected(W, h) == W.cells[h] # NoProjection

\* project(host): one cell for each own property the host has now.
project(W, h) == [W EXCEPT !.cells[h] = {k \in Keys : W.hostContext[h][k] # Absent}]

\* A write through the projection: the host property, and the subscribers
\* of its cell, in subscription order, before the write returns.
projectionSet(W, h, k, v) ==
    [W EXCEPT !.hostContext[h][k] = v,
              !.heard[h] = @ \o [n \in 1..Len(W.watchers[h][k]) |->
                                    [key |-> k, watcher |-> W.watchers[h][k][n], value |-> v]]]

(***************************************************************************)
(* The Effect Invocation Engine (initEffect of internals/utils).           *)
(***************************************************************************)
\* Change detection requested after a successful binding write.
requestChangeDetection(W, a) ==
    LET h == a.hostContext
        W1 == IF a.options.markDirty
              THEN [W EXCEPT !.cdr[h].markDirty = @ + 1] ELSE W
    IN  IF a.options.detectChanges
        THEN [W1 EXCEPT !.cdr[h].detectChanges = @ + 1] ELSE W1

bindingError(W, a) ==
    [W EXCEPT !.console = Append(@, [host |-> a.hostContext, effect |-> a.effect.id,
                                     kind |-> "binding"])]

\* Whole-object binding: every key of the emitted object that the host owns,
\* in the order of the keys.
KeyOrder == <<"x", "y", "z">>

RECURSIVE applyKeys(_, _, _, _)
applyKeys(W, a, v, ks) ==
    IF ks = <<>> THEN W
    ELSE LET h == a.hostContext
             k == Head(ks)
         IN  applyKeys(IF v.fields[k] # Absent /\ W.hostContext[h][k] # Absent
                       THEN projectionSet(W, h, k, v.fields[k]) ELSE W,
                       a, v, Tail(ks))

applyObject(W, a, v) == applyKeys(W, a, v, KeyOrder)

\* One value applied under the binding rules of the effect.
bindingWrite(W, a, v) ==
    LET h == a.hostContext IN
    IF a.binding = "apply"
    THEN IF v.isObject
         THEN requestChangeDetection(applyObject(W, a, v), a)
         ELSE bindingError(W, a)
    ELSE IF a.binding # "none"
    THEN IF W.hostContext[h][a.binding] # Absent
         THEN requestChangeDetection(projectionSet(W, h, a.binding, v.scalar), a)
         ELSE bindingError(W, a)
    ELSE W

\* The engine's observer of an effect's stream: next(value).
onNext(W, a, v) ==
    IF a.adapter
    THEN [W EXCEPT !.adapterCalls[a.hostContext] =
              Append(@, [effect |-> a.effect.id, value |-> v, options |-> a.options])]
    ELSE bindingWrite(W, a, v)

\* The engine's observer of an effect's stream: error(e).  The error goes to
\* the global error channel and ends this subscription, which leaves the scope.
onError(W, a) ==
    LET h == a.hostContext IN
    [W EXCEPT !.console = Append(@, [host |-> h, effect |-> a.effect.id, kind |-> "stream"]),
              !.streams[h] = @ \ {a},
              !.subs[h][a.subs].teardowns =
                   SelectSeq(@, LAMBDA m : m # Member("stream", a))]

\* What a plain-value effect returns: a scalar, or an object of own keys.
ReturnedValue == Scalar(1)
ReturnedObject == Object([x |-> 1, y |-> 2, z |-> Absent])

\* A slip of the engine: a returned value that is no stream is applied under
\* the binding of the effect, as an emission would be.
plainReturn_Binds(W, a, v) == bindingWrite(W, a, v)

\* A returned value that is neither a stream nor teardown logic: bind and
\* apply are ignored if the effect does not return an observable, and change
\* detection follows the emissions of a bound effect only, so nothing is
\* written, requested or kept.
plainReturn(W, a, v) == W

\* The host an effect of h constructs when it nests a host: B inside A.
Child(h) == IF h = "A" THEN "B" ELSE "none"

\* What the effect function does when called is part of the kind: destroys
\* has the host destroyed (ngOnDestroy of its InitEffects) before it returns,
\* nests constructs the child host, whose constructor calls connect(child).
RECURSIVE ngOnDestroy(_, _)
RECURSIVE connect(_, _)

\* An exception that left the connect of the child host leaves the
\* constructor of the child and the effect function that called it.
rethrow(W, c) == IF W.outcome[c] = "threw" THEN [W EXCEPT !.thrown = TRUE] ELSE W

initEffect(W, a) ==
    LET h  == a.hostContext
        i  == a.effect.id
        W0 == [W EXCEPT !.invoked[h] = Append(@, i),
                        !.observed[h] = Append(@, [effect |-> i,
                                                   context |-> W.currentContext,
                                                   projected |-> Projected(W, h),
                                                   destroyed |-> W.subs[h][a.subs].closed])]
    IN  CASE a.effect.returns = "throws" -> [W0 EXCEPT !.thrown = TRUE]
          [] a.effect.returns = "undefined" -> W0
          [] a.effect.returns \in {"teardown", "subscription", "canceller"} ->
                subsAdd(W0, h, a.subs, Member(a.effect.returns, a))
          [] a.effect.returns = "observable" ->
                subsAdd([W0 EXCEPT !.sources[h] = @ \cup {i},
                                   !.streams[h] = @ \cup {a}],
                        h, a.subs, Member("stream", a))
          [] a.effect.returns = "value" -> plainReturn(W0, a, ReturnedValue)
          [] a.effect.returns = "object" -> plainReturn(W0, a, ReturnedObject)
          [] a.effect.returns = "destroys" -> ngOnDestroy(W0, h)
          [] a.effect.returns = "nests" ->
                IF Child(h) \in hosts /\ W0.outcome[Child(h)] = "none"
                THEN rethrow(connect(W0, Child(h)), Child(h))
                ELSE W0

(***************************************************************************)
(* The render gate: viewRenderer.whenRendered().pipe(take(1)).             *)
(***************************************************************************)
\* The subscriber of run(): () => initEffect(args), error => console.error.
\* An exception of the next callback is caught by rxjs and scheduled to be
\* rethrown from a timer: it reaches the error channel in a later turn of
\* the event loop, not in this handler.  take(1) then completes, which
\* unsubscribes the listener and drops it from subs.
gateNext(W, a) ==
    LET h  == a.hostContext
        W1 == initEffect(W, a)
        W2 == IF W1.thrown
              THEN [W1 EXCEPT !.thrown = FALSE,
                              !.timers = Append(@, [host |-> h, effect |-> a.effect.id,
                                                    kind |-> "uncaught"])]
              ELSE W1
    IN  [W2 EXCEPT !.listeners[Renderer(h)] = SelectSeq(@, LAMBDA b : b # a),
                   !.subs[h][a.subs].teardowns =
                        SelectSeq(@, LAMBDA m : m # Member("listener", a))]

\* A slip of run(): subscribe is given no error callback, nothing is logged.
gateError_Unhandled(W, a) ==
    LET h == a.hostContext
    IN  [W EXCEPT !.listeners[Renderer(h)] = SelectSeq(@, LAMBDA b : b # a),
                  !.subs[h][a.subs].teardowns =
                       SelectSeq(@, LAMBDA m : m # Member("listener", a))]

\* The error callback of the subscriber of run(): error => console.error(error).
\* The error ends the subscription, which drops the listener from subs;
\* initEffect is not called and nothing is thrown.
gateError(W, a) ==
    LET h == a.hostContext
    IN  [W EXCEPT !.console = Append(@, [host |-> h, effect |-> a.effect.id,
                                         kind |-> "gate"]),
                  !.listeners[Renderer(h)] = SelectSeq(@, LAMBDA b : b # a),
                  !.subs[h][a.subs].teardowns =
                       SelectSeq(@, LAMBDA m : m # Member("listener", a))]

\* A slip of run(): the gate subscription is not added to subs.
whenRenderedSubscribe_NotOwned(W, a) ==
    IF W.fired[Renderer(a.hostContext)] THEN gateNext(W, a)
    ELSE [W EXCEPT !.listeners[Renderer(a.hostContext)] = Append(@, a)]

\* A slip of the gate: a listener that subscribes after the notification is
\* queued like any other and hears nothing.
whenRenderedSubscribe_NoReplay(W, a) ==
    subsAdd([W EXCEPT !.listeners[Renderer(a.hostContext)] = Append(@, a)],
            a.hostContext, a.subs, Member("listener", a))

\* subs.add(whenRendered.subscribe(next, error)): whenRendered() is asked of
\* the renderer the InitEffects was given and takes no host.  A gate that has
\* fired notifies the new listener at once, a gate that has failed hands it
\* the error at once, and the subscription returned is closed.
whenRenderedSubscribe(W, a) ==
    LET h == a.hostContext
        r == Renderer(h)
    IN  IF W.gateFailed[r] THEN gateError(W, a)
        ELSE IF W.fired[r] THEN gateNext(W, a)
        ELSE subsAdd([W EXCEPT !.listeners[r] = Append(@, a)],
                     h, a.subs, Member("listener", a))

\* The gate's single notification, to the listeners in subscription order;
\* a listener unsubscribed meanwhile is skipped.
RECURSIVE notify(_, _, _)
notify(W, r, ls) ==
    IF ls = <<>> THEN W
    ELSE IF Head(ls) \in Range(W.listeners[r])
         THEN notify(gateNext(W, Head(ls)), r, Tail(ls))
         ELSE notify(W, r, Tail(ls))

\* The gate's error, to the listeners in subscription order.
RECURSIVE fail(_, _, _)
fail(W, r, ls) ==
    IF ls = <<>> THEN W
    ELSE IF Head(ls) \in Range(W.listeners[r])
         THEN fail(gateError(W, Head(ls)), r, Tail(ls))
         ELSE fail(W, r, Tail(ls))

(***************************************************************************)
(* The Effect Metadata Registry: declared is what the class registered,    *)
(* effects (EFFECTS) is what resolve makes of it for a host.               *)
(***************************************************************************)
\* bind set together with apply.
misconfigured(d) == d.options.bind # "none" /\ d.options.apply

\* bind, else apply, else (not strict) the own property named like the
\* method, else no binding.
resolveBinding(d, s) ==
    IF d.options.bind # "none" THEN d.options.bind
    ELSE IF d.options.apply THEN "apply"
    ELSE IF ~s /\ d.name \in OwnKeys THEN d.name
    ELSE "none"

\* The resolved entries in declaration order; a misconfigured one is left out.
RECURSIVE resolveFrom(_, _, _)
resolveFrom(ds, i, s) ==
    IF i > Len(ds) THEN <<>>
    ELSE (IF misconfigured(ds[i]) THEN <<>>
          ELSE <<[effect |-> [id |-> i, returns |-> ds[i].effect],
                  binding |-> resolveBinding(ds[i], s),
                  options |-> ds[i].options, adapter |-> ds[i].adapter]>>)
         \o resolveFrom(ds, i + 1, s)

resolve(ds, s) == resolveFrom(ds, 1, s)

\* The configuration errors resolve reports for host h.
RECURSIVE reportFrom(_, _, _)
reportFrom(W, h, i) ==
    IF i > Len(declared) THEN W
    ELSE reportFrom(IF misconfigured(declared[i])
                    THEN [W EXCEPT !.console =
                              Append(@, [host |-> h, effect |-> i, kind |-> "configuration"])]
                    ELSE W,
                    h, i + 1)

\* The resolved entry of the effect declared i-th.
Meta(i) == effects[CHOOSE k \in 1..Len(effects) : effects[k].effect.id = i]

(***************************************************************************)
(* InitEffects (init-effects.ts).                                          *)
(***************************************************************************)
\* Slips of run() that the properties below must tell from the code:
\* args built without the adapter, and without the binding.
mkArgs_NoAdapter(W, h, m) ==
    [effect |-> m.effect, hostContext |-> h, subs |-> thisSubs(W, h), run |-> W.runs[h], binding |-> m.binding,
     options |-> m.options, adapter |-> FALSE]

mkArgs_DefaultOptions(W, h, m) ==
    [effect |-> m.effect, hostContext |-> h, subs |-> thisSubs(W, h), run |-> W.runs[h], binding |-> m.binding,
     options |-> [m.options EXCEPT !.markDirty = FALSE, !.detectChanges = FALSE],
     adapter |-> m.adapter]

mkArgs_BoundToX(W, h, m) ==
    [effect |-> m.effect, hostContext |-> h, subs |-> thisSubs(W, h), run |-> W.runs[h],
     binding |-> IF m.binding = "none" THEN "x" ELSE m.binding,
     options |-> m.options, adapter |-> m.adapter]

mkArgs_NoBinding(W, h, m) ==
    [effect |-> m.effect, hostContext |-> h, subs |-> thisSubs(W, h), run |-> W.runs[h], binding |-> "none",
     options |-> m.options, adapter |-> m.adapter]

\* const args: InitEffectArgs = { effect, hostContext, binding, options, ... }:
\* a new object in every pass of the loop; subs is this.subs, and run tells
\* the objects of one pass of run() from those of another.
mkArgs(W, h, m) ==
    [effect |-> m.effect, hostContext |-> h, subs |-> thisSubs(W, h), run |-> W.runs[h], binding |-> m.binding,
     options |-> m.options, adapter |-> m.adapter]

\* Slips of the loop body: every effect gated, no effect gated, the else
\* dropped (a gated effect is also called at once).
runEffect_AllGated(W, h, m) == whenRenderedSubscribe(W, mkArgs(W, h, m))

runEffect_NoneGated(W, h, m) == initEffect(W, mkArgs(W, h, m))

runEffect_NoElse(W, h, m) ==
    initEffect(IF m.options.whenRendered THEN whenRenderedSubscribe(W, mkArgs(W, h, m)) ELSE W,
               mkArgs(W, h, m))

\* One iteration of the loop of run().
runEffect(W, h, m) ==
    IF m.options.whenRendered
    THEN whenRenderedSubscribe(W, mkArgs(W, h, m))
    ELSE initEffect(W, mkArgs(W, h, m))

\* for (const {...} of effects) {...}: an exception leaves the loop.
RECURSIVE runFrom(_, _, _)
runFrom(W, h, i) ==
    IF i > Len(effects) \/ W.thrown THEN W
    ELSE runFrom(runEffect(W, h, effects[i]), h, i + 1)

\* A slip of run(): the effects are taken from the last to the first.
RECURSIVE runDownFrom(_, _, _)
runDownFrom(W, h, i) ==
    IF i < 1 \/ W.thrown THEN W
    ELSE runDownFrom(runEffect(W, h, effects[i]), h, i - 1)

run_Backwards(W, h) == runDownFrom([W EXCEPT !.runs[h] = @ + 1], h, Len(effects))

run(W, h) == runFrom([W EXCEPT !.runs[h] = @ + 1], h, 1)

\* constructor: this.subs = new Subscription(); ...; this.run().  The
\* injector keeps the instance only when the constructor returns.
InitEffectsNew(W, h) ==
    LET W0 == reportFrom(W, h, 1)
        W1 == run([W0 EXCEPT !.subs[h] = Append(@, NewSubscription)], h)
    IN  IF W1.thrown THEN W1 ELSE [W1 EXCEPT !.instance[h] = TRUE]

\* Slips of ngOnDestroy: the members are run without closing the scope; nothing
\* is unsubscribed.
ngOnDestroy_NotClosing(W, h) ==
    ExecuteAll(W, h, thisSubs(W, h), W.subs[h][thisSubs(W, h)].teardowns)

ngOnDestroy_Nothing(W, h) == W

\* A slip of InitEffects: one Subscription shared by the hosts.
ngOnDestroy_SharedScope(W, h) ==
    LET W1 == IF W.subs["A"] = <<>> THEN W ELSE unsubscribe(W, "A", thisSubs(W, "A"))
    IN  IF W1.subs["B"] = <<>> THEN W1 ELSE unsubscribe(W1, "B", thisSubs(W1, "B"))

\* ngOnDestroy() { this.subs.unsubscribe() }
ngOnDestroy(W, h) == unsubscribe(W, h, thisSubs(W, h))

(***************************************************************************)
(* ConnectFactory (connect-factory.ts).                                    *)
(***************************************************************************)
\* A slip of connect: InitEffects is constructed again on every call.
resolveInitializers_Again(W, h) ==
    IF h \notin provided THEN [W EXCEPT !.thrown = TRUE] ELSE InitEffectsNew(W, h)

\* initializers.forEach(injector.get, injector): a provider already
\* instantiated is returned from the injector, its constructor is not rerun;
\* a @Host() dependency of InitEffects that is not provided makes get throw.
resolveInitializers(W, h) ==
    IF W.instance[h] THEN W
    ELSE IF h \notin provided THEN [W EXCEPT !.thrown = TRUE]
    ELSE InitEffectsNew(W, h)

\* A slip of connect: the initializers are resolved before the context is
\* registered.
connect_RegisterLate(W, h) ==
    LET W1 == resolveInitializers(W, h)
        W2 == IF W1.thrown THEN W1
              ELSE project([W1 EXCEPT !.currentContext = @ \cup {h}], h)
    IN  IF W2.thrown
        THEN [W2 EXCEPT !.thrown = FALSE, !.outcome[h] = "threw"]
        ELSE [W2 EXCEPT !.currentContext = {}, !.outcome[h] = "returned"]

connect(W, h) ==
    LET W1 == project([W EXCEPT !.currentContext = @ \cup {h}], h)
        W2 == resolveInitializers(W1, h)
    IN  IF W2.thrown
        THEN [W2 EXCEPT !.thrown = FALSE, !.outcome[h] = "threw"]
        ELSE [W2 EXCEPT !.currentContext = {}, !.outcome[h] = "returned"]

(***************************************************************************)
(* The declared effects.  A kind is one EffectMetadata without its place   *)
(* in the declaration order; effect is what the effect function does when  *)
(* it is called.                                                           *)
(***************************************************************************)
Kind(ret, bnd, wr, md, dc, ad) ==
    [effect |-> ret, binding |-> bnd,
     options |-> [whenRendered |-> wr, markDirty |-> md, detectChanges |-> dc],
     adapter |-> ad]

\* Effects that differ in timing and in what they hand to the teardown scope.
LifecycleKinds ==
    {Kind(ret, IF ret = "observable" THEN "x" ELSE "none", wr, ret = "observable", FALSE, FALSE) :
        ret \in {"undefined", "teardown", "subscription", "observable", "throws"},
        wr \in BOOLEAN}

\* Effects that return a stream and differ in how its values are bound.
BindingKinds ==
    {Kind("observable", bnd, FALSE, md, FALSE, FALSE) :
        bnd \in {"x", "apply"}, md \in BOOLEAN}
    \cup {Kind("observable", bnd, FALSE, TRUE, FALSE, TRUE) : bnd \in {"none", "x", "apply"}}
    \cup {Kind("observable", "none", FALSE, TRUE, FALSE, FALSE),
          Kind("observable", "z", FALSE, TRUE, FALSE, FALSE),
          Kind("observable", "y", TRUE, FALSE, TRUE, FALSE)}

\* The declaration of an effect of kind k as the method named n: the binding
\* of the kind is declared with bind or apply.
Declaration(k, n) ==
    [name |-> n, effect |-> k.effect,
     options |-> [bind |-> IF k.binding \in Keys THEN k.binding ELSE "none",
                  apply |-> k.binding = "apply",
                  whenRendered |-> k.options.whenRendered,
                  markDirty |-> k.options.markDirty,
                  detectChanges |-> k.options.detectChanges],
     adapter |-> k.adapter]

Declared(ks) == [i \in 1..NumEffects |-> Declaration(ks[i], "effect")]

\* The objects an apply stream emits: both own keys, one own key, and an
\* own key beside a key the host does not own.
EmittedObjects ==
    {Object([x |-> 1, y |-> 2, z |-> Absent]), Object([x |-> 2, y |-> 1, z |-> Absent]),
     Object([x |-> 2, y |-> Absent, z |-> Absent]), Object([x |-> Absent, y |-> 1, z |-> Absent]),
     Object([x |-> Absent, y |-> 2, z |-> 1])}

\* What the stream of an effect may emit.
Emittable(m) ==
    IF m.binding = "apply" THEN EmittedObjects \cup {Scalar(1)}
    ELSE {Scalar(n) : n \in Vals}

NoEmit == [host |-> "none", effect |-> 0, value |-> Scalar(0), delivered |-> FALSE]

\* The siblings declared after the effect whose binding varies.
SiblingKinds ==
    {Kind("observable", "x", FALSE, TRUE, FALSE, FALSE),
     Kind("observable", "apply", FALSE, FALSE, FALSE, FALSE)}

\* The first two effects are of any kind; those declared after them return
\* a teardown function at once or nothing once rendered.
LaterKinds ==
    {Kind("teardown", "none", FALSE, FALSE, FALSE, FALSE),
     Kind("undefined", "none", TRUE, FALSE, FALSE, FALSE)}
LifecycleConfigs ==
    {ks \in [1..NumEffects -> LifecycleKinds] : \A i \in 3..NumEffects : ks[i] \in LaterKinds}
BindingConfigs ==
    {ks \in [1..NumEffects -> BindingKinds \cup SiblingKinds] :
        ks[1] \in BindingKinds /\ \A i \in 2..NumEffects : ks[i] \in SiblingKinds}

InitOf(hs, provs, decls, stricts, roots) ==
    /\ hosts = hs
    /\ rootRenderer \in roots
    /\ provided \in provs
    /\ declared \in decls
    /\ strict \in stricts
    /\ effects = resolve(declared, strict)
    /\ currentContext = {}
    /\ instance = [h \in Hosts |-> FALSE]
    /\ subs = [h \in Hosts |-> <<>>]
    /\ runs = [h \in Hosts |-> 0]
    /\ listeners = [r \in Renderers |-> <<>>]
    /\ fired = [r \in Renderers |-> FALSE]
    /\ gateFailed = [r \in Renderers |-> FALSE]
    /\ streams = [h \in Hosts |-> {}]
    /\ sources = [h \in Hosts |-> {}]
    /\ hostContext = [h \in Hosts |-> NewHost]
    /\ cells = [h \in Hosts |-> NoProjection]
    /\ watchers = [h \in Hosts |-> [k \in Keys |-> <<>>]]
    /\ heard = [h \in Hosts |-> <<>>]
    /\ observed = [h \in Hosts |-> <<>>]
    /\ cdr = [h \in Hosts |-> [markDirty |-> 0, detectChanges |-> 0]]
    /\ adapterCalls = [h \in Hosts |-> <<>>]
    /\ console = <<>>
    /\ timers = <<>>
    /\ invoked = [h \in Hosts |-> <<>>]
    /\ teardownCalls = [h \in Hosts |-> [i \in 1..NumEffects |-> 0]]
    /\ outcome = [h \in Hosts |-> "none"]
    /\ connects = [h \in Hosts |-> 0]
    /\ commits = [h \in Hosts |-> 0]
    /\ destroys = [h \in Hosts |-> 0]
    /\ emitted = [h \in Hosts |-> [i \in 1..NumEffects |-> 0]]
    /\ destroyedUnrendered = [h \in Hosts |-> FALSE]
    /\ lastEmit = NoEmit

\* One host: the renderer it is given is the only one there is, and every
\* notification of it is a commit of this host's view.
InitWith(hs, provs, decls, stricts) == InitOf(hs, provs, decls, stricts, {FALSE})

\* Lifecycle: one host, with or without the providers of InitEffects.
Init == InitWith({"A"}, {{}, {"A"}}, {Declared(ks) : ks \in LifecycleConfigs}, {FALSE})
InitBinding == InitWith({"A"}, {{"A"}}, {Declared(ks) : ks \in BindingConfigs}, {FALSE})

\* Resolution: the first effect returns a stream and is declared under the
\* name of an own property (x) or of a property the host does not own (z),
\* with or without bind, with or without apply; its siblings follow.
ResolveDeclarations ==
    {[name |-> n, effect |-> "observable",
      options |-> [bind |-> b, apply |-> ap, whenRendered |-> FALSE,
                   markDirty |-> TRUE, detectChanges |-> FALSE],
      adapter |-> FALSE] :
        n \in {"x", "z"}, b \in {"none", "y"}, ap \in BOOLEAN}

ResolveConfigs ==
    {ds \in [1..NumEffects -> ResolveDeclarations
                                \cup {Declaration(k, "effect") : k \in SiblingKinds}] :
        /\ ds[1] \in ResolveDeclarations
        /\ \A i \in 2..NumEffects : ds[i] \in {Declaration(k, "effect") : k \in SiblingKinds}}

InitResolve == InitWith({"A"}, {{"A"}}, ResolveConfigs, BOOLEAN)

\* Two hosts of one class: each effect is immediate or whenRendered, and
\* returns nothing or a stream bound to x.
HostKinds ==
    {Kind(ret, IF ret = "observable" THEN "x" ELSE "none", wr, FALSE, FALSE, FALSE) :
        ret \in {"undefined", "observable"}, wr \in BOOLEAN}
HostConfigs == [1..NumEffects -> HostKinds]
InitHosts == InitOf(Hosts, {Hosts}, {Declared(ks) : ks \in HostConfigs}, {FALSE}, BOOLEAN)

\* Effects that return no stream, under every binding, and a stream without
\* binding; the siblings are one of each.
ValueKinds ==
    {Kind(ret, bnd, wr, TRUE, FALSE, FALSE) :
        ret \in {"undefined", "teardown", "value"},
        bnd \in {"x", "apply", "none", "z"}, wr \in BOOLEAN}
    \cup {Kind("object", "apply", wr, TRUE, FALSE, FALSE) : wr \in BOOLEAN}
    \cup {Kind("observable", "none", wr, TRUE, FALSE, FALSE) : wr \in BOOLEAN}
ValueSiblingKinds ==
    {Kind("value", "x", FALSE, TRUE, FALSE, FALSE),
     Kind("observable", "none", FALSE, TRUE, FALSE, FALSE)}
ValueConfigs ==
    {ks \in [1..NumEffects -> ValueKinds] :
        \A i \in 2..NumEffects : ks[i] \in ValueSiblingKinds}
InitValues == InitWith({"A"}, {{"A"}}, {Declared(ks) : ks \in ValueConfigs}, {FALSE})

\* Re-entry: teardown functions, among them one that cancels the scope it
\* belongs to, and streams.
ReentryKinds ==
    {Kind(ret, IF ret = "observable" THEN "x" ELSE "none", wr, FALSE, FALSE, FALSE) :
        ret \in {"teardown", "canceller", "observable"}, wr \in BOOLEAN}
LaterReentryKinds ==
    {Kind("teardown", "none", FALSE, FALSE, FALSE, FALSE),
     Kind("canceller", "none", TRUE, FALSE, FALSE, FALSE)}
InitReentry ==
    InitWith({"A"}, {{"A"}},
             {Declared(ks) : ks \in {c \in [1..NumEffects -> ReentryKinds] :
                                        \A i \in 3..NumEffects : c[i] \in LaterReentryKinds}},
             {FALSE})

\* Two hosts of one class whose effects hand a teardown function or a stream
\* to the scope, at once or whenRendered.
ScopeKinds ==
    {Kind(ret, IF ret = "observable" THEN "x" ELSE "none", wr, FALSE, FALSE, FALSE) :
        ret \in {"teardown", "observable"}, wr \in BOOLEAN}
LaterScopeKinds == {Kind("teardown", "none", TRUE, FALSE, FALSE, FALSE)}
ScopeConfigs ==
    {ks \in [1..NumEffects -> ScopeKinds] : \A i \in 3..NumEffects : ks[i] \in LaterScopeKinds}
InitScopes ==
    InitOf(Hosts, {Hosts}, {Declared(ks) : ks \in ScopeConfigs}, {FALSE}, BOOLEAN)

\* An effect that has its host destroyed while it runs, among effects that
\* return nothing or a stream.
SelfDestroyKinds ==
    {Kind(ret, IF ret = "observable" THEN "x" ELSE "none", wr, FALSE, FALSE, FALSE) :
        ret \in {"destroys", "undefined", "observable"}, wr \in BOOLEAN}
InitSelfDestroy ==
    InitWith({"A"}, {{"A"}}, {Declared(ks) : ks \in [1..NumEffects -> SelfDestroyKinds]},
             {FALSE})

\* Two hosts of one class, B also as the child an effect of A constructs.
NestedKinds ==
    {Kind("nests", "none", wr, FALSE, FALSE, FALSE) : wr \in BOOLEAN}
        \cup {Kind("undefined", "none", FALSE, FALSE, FALSE, FALSE),
              Kind("observable", "x", FALSE, FALSE, FALSE, FALSE)}
InitNested ==
    InitOf(Hosts, {Hosts}, {Declared(ks) : ks \in [1..NumEffects -> NestedKinds]}, {FALSE},
           BOOLEAN)

\* A render gate that may fail: effects that return nothing or a stream bound
\* to x, at once or whenRendered.
GateKinds ==
    {Kind(ret, IF ret = "observable" THEN "x" ELSE "none", wr, FALSE, FALSE, FALSE) :
        ret \in {"undefined", "observable"}, wr \in BOOLEAN}
InitGate ==
    InitWith({"A"}, {{"A"}}, {Declared(ks) : ks \in [1..NumEffects -> GateKinds]}, {FALSE})

\* Streams that may fail: every effect returns a stream bound to x or applied.
StreamConfigs == [1..NumEffects -> SiblingKinds]
InitStreams == InitWith({"A"}, {{"A"}}, {Declared(ks) : ks \in StreamConfigs}, {FALSE})

RECURSIVE SumTo(_, _)
SumTo(f, n) == IF n = 0 THEN 0 ELSE f[n] + SumTo(f, n - 1)

\* Values emitted so far by the streams of h, and by all streams.
EmissionsOf(h) == SumTo(emitted[h], NumEffects)
Emissions == EmissionsOf("A") + EmissionsOf("B")

(***************************************************************************)
(* The handlers.                                                           *)
(***************************************************************************)
\* connect(host) is called, by the constructor of the host or, on the same
\* object, by anybody once more: also after a connect that threw, when the
\* injector holds no InitEffects and constructs one again.
ConnectUpTo(h, n) ==
    /\ h \in hosts
    /\ connects[h] < n
    /\ Commit(connect(World, h))
    /\ connects' = [connects EXCEPT ![h] = @ + 1]
    /\ UNCHANGED <<config, commits, destroys, emitted, destroyedUnrendered, lastEmit>>

\* The view of h is committed to the display tree: the gate of the renderer
\* that renders h hears it,
\* and its first commit is the gate's one notification.
RenderCommitUpTo(h, n) ==
    /\ h \in hosts
    /\ commits[h] < n
    /\ Commit(IF fired[Renderer(h)] \/ gateFailed[Renderer(h)] THEN World
              ELSE notify([World EXCEPT !.fired[Renderer(h)] = TRUE],
                          Renderer(h), listeners[Renderer(h)]))
    /\ commits' = [commits EXCEPT ![h] = @ + 1]
    /\ UNCHANGED <<config, connects, destroys, emitted, destroyedUnrendered, lastEmit>>

\* The framework destroys the host: ngOnDestroy of its InitEffects.
DestroyUpTo(h, n) ==
    /\ h \in hosts
    /\ instance[h]
    /\ destroys[h] < n
    /\ Commit(ngOnDestroy(World, h))
    /\ destroys' = [destroys EXCEPT ![h] = @ + 1]
    /\ destroyedUnrendered' = [destroyedUnrendered EXCEPT ![h] = @ \/ commits[h] = 0]
    /\ UNCHANGED <<config, connects, commits, emitted, lastEmit>>

\* A stream effect i of h returned emits v; the engine's observer of that
\* stream hears it while its subscription is open (every call of the effect
\* returned a stream of its own).
Emit(h, i, v) ==
    /\ h \in hosts
    /\ i \in sources[h]
    /\ Emissions < MaxEmits
    /\ LET obs == {a \in streams[h] : a.effect.id = i}
       IN  /\ IF obs = {} THEN Commit(World)
              ELSE \E a \in obs : Commit(onNext(World, a, v))
           /\ lastEmit' = [host |-> h, effect |-> i, value |-> v, delivered |-> obs # {}]
    /\ emitted' = [emitted EXCEPT ![h][i] = @ + 1]
    /\ UNCHANGED <<config, connects, commits, destroys, destroyedUnrendered>>

\* The stream effect i of h returned fails: its observer, while subscribed,
\* hears the error; the stream is over.
StreamError(h, i) ==
    /\ h \in hosts
    /\ i \in sources[h]
    /\ LET obs == {a \in streams[h] : a.effect.id = i}
           W   == [World EXCEPT !.sources[h] = @ \ {i}]
       IN  IF obs = {} THEN Commit(W)
           ELSE \E a \in obs : Commit(onError(IF obs = {a} THEN W ELSE World, a))
    /\ UNCHANGED <<config, connects, commits, destroys, emitted, destroyedUnrendered, lastEmit>>

\* The render-timing stream of h ends with an error before its one
\* notification: the listeners hear the error, and the stream is over.
GateError(h) ==
    /\ h \in hosts
    /\ ~fired[Renderer(h)]
    /\ ~gateFailed[Renderer(h)]
    /\ Commit(fail([World EXCEPT !.gateFailed[Renderer(h)] = TRUE],
                   Renderer(h), listeners[Renderer(h)]))
    /\ UNCHANGED <<config, connects, commits, destroys, emitted, destroyedUnrendered, lastEmit>>

\* The public run() of the InitEffects of h is called from outside, by
\* anybody who holds the instance: the loop is walked again on the same subs.
\* One such call for a host is followed (runs counts the pass of each
\* constructor as well).
RunAgain(h) ==
    /\ h \in hosts
    /\ instance[h]
    /\ runs[h] = Len(subs[h])
    /\ Commit(run(World, h))
    /\ UNCHANGED <<config, connects, commits, destroys, emitted, destroyedUnrendered, lastEmit>>

\* A timer of rxjs runs: the exception it holds is thrown to the event loop
\* and arrives on the global error channel as an uncaught exception.
ReportUncaught ==
    /\ timers # <<>>
    /\ Commit([World EXCEPT !.console = Append(@, Head(timers)), !.timers = Tail(@)])
    /\ UNCHANGED <<config, connects, commits, destroys, emitted, destroyedUnrendered, lastEmit>>

\* The host assigns v to its own property k: a plain assignment.
HostWrite(h, k, v) ==
    /\ h \in hosts
    /\ hostContext[h][k] # v
    /\ Commit([World EXCEPT !.hostContext[h][k] = v])
    /\ UNCHANGED <<config, connects, commits, destroys, emitted, destroyedUnrendered, lastEmit>>

\* Subscriber w subscribes to the stream of cell k of the projection of h.
Watch(h, k, w) ==
    /\ h \in hosts
    /\ Projected(World, h)
    /\ w \notin Range(watchers[h][k])
    /\ Commit([World EXCEPT !.watchers[h][k] = Append(@, w)])
    /\ UNCHANGED <<config, connects, commits, destroys, emitted, destroyedUnrendered, lastEmit>>

Connect(h) == ConnectUpTo(h, MaxRepeats)
RenderCommit(h) == RenderCommitUpTo(h, MaxRepeats)
Destroy(h) == DestroyUpTo(h, MaxRepeats)

ConnectOnce(h) == ConnectUpTo(h, 1)
RenderCommitOnce(h) == RenderCommitUpTo(h, 1)
DestroyOnce(h) == DestroyUpTo(h, 1)

EmitAny == \E h \in Hosts : \E i \in sources[h] : \E v \in Emittable(Meta(i)) : Emit(h, i, v)
ErrorAny == \E h \in Hosts : \E i \in sources[h] : StreamError(h, i)
RunAgainAny == \E h \in Hosts : RunAgain(h)
GateErrorAny == \E h \in Hosts : GateError(h)
HostWriteAny == \E h \in Hosts, v \in Vals : HostWrite(h, "x", v)
WatchAny ==
    \E h \in Hosts, k \in OwnKeys :
        \E w \in (IF k = "x" THEN Watchers ELSE {"w1"}) : Watch(h, k, w)

\* Lifecycle: every notification may repeat, and run() may be called again.
Next ==
    \/ \E h \in Hosts : Connect(h)
    \/ \E h \in Hosts : RenderCommit(h)
    \/ \E h \in Hosts : Destroy(h)
    \/ EmitAny
    \/ RunAgainAny
    \/ ReportUncaught

\* Re-entrant cancellation: every notification may repeat and run() may be
\* called again; no effect throws.
NextReentry ==
    \/ \E h \in Hosts : Connect(h)
    \/ \E h \in Hosts : RenderCommit(h)
    \/ \E h \in Hosts : Destroy(h)
    \/ EmitAny
    \/ RunAgainAny

\* Binding: one connect, one commit, one destroy, and the emissions.
NextBinding ==
    \/ \E h \in Hosts : ConnectOnce(h)
    \/ \E h \in Hosts : RenderCommitOnce(h)
    \/ \E h \in Hosts : DestroyOnce(h)
    \/ EmitAny

Spec == Init /\ [][Next]_vars
SpecBinding == InitBinding /\ [][NextBinding]_vars
\* The binding signals, and streams that end with an error.
NextStreams ==
    \/ \E h \in Hosts : ConnectOnce(h)
    \/ \E h \in Hosts : RenderCommitOnce(h)
    \/ \E h \in Hosts : DestroyOnce(h)
    \/ EmitAny
    \/ ErrorAny

SpecResolve == InitResolve /\ [][NextBinding]_vars
\* Connect, destroy and emissions, with the host writing x and subscribers
\* arriving at the cells.
NextProjection ==
    \/ \E h \in Hosts : ConnectOnce(h)
    \/ \E h \in Hosts : DestroyOnce(h)
    \/ EmitAny
    \/ HostWriteAny
    \/ WatchAny

SpecStreams == InitStreams /\ [][NextStreams]_vars
SpecProjection == InitStreams /\ [][NextProjection]_vars
SpecHosts == InitHosts /\ [][NextBinding]_vars
SpecValues == InitValues /\ [][NextBinding]_vars
SpecScopes == InitScopes /\ [][NextBinding]_vars
\* The binding signals, and run() called again from outside.
NextSelfDestroy ==
    \/ \E h \in Hosts : ConnectOnce(h)
    \/ \E h \in Hosts : RenderCommitOnce(h)
    \/ \E h \in Hosts : DestroyOnce(h)
    \/ EmitAny
    \/ RunAgainAny

SpecSelfDestroy == InitSelfDestroy /\ [][NextSelfDestroy]_vars
SpecNested == InitNested /\ [][NextBinding]_vars
SpecReentry == InitReentry /\ [][NextReentry]_vars
\* The binding signals, and a render-timing stream that ends with an error.
NextGate ==
    \/ \E h \in Hosts : ConnectOnce(h)
    \/ \E h \in Hosts : RenderCommitOnce(h)
    \/ \E h \in Hosts : DestroyOnce(h)
    \/ EmitAny
    \/ GateErrorAny

SpecGate == InitGate /\ [][NextGate]_vars
\* The gate as the InitEffects of h sees it: the listeners of h on the gate of
\* its renderer, and whether that gate has fired or failed.
Listeners(h) == SelectSeq(listeners[Renderer(h)], LAMBDA a : a.hostContext = h)
Fired(h) == fired[Renderer(h)]
GateFailed(h) == gateFailed[Renderer(h)]


(***************************************************************************)
(* Properties.                                                             *)
(***************************************************************************)
\* The Subscription of the InitEffects last constructed for h: the one the
\* injector holds once a connect of h has returned.
Subs(h) == IF subs[h] = <<>> THEN NewSubscription ELSE subs[h][Len(subs[h])]
Ids == 1..NumEffects
DeclarationOrder == [i \in Ids |-> i]
Gated(i) == effects[i].options.whenRendered
Calls(h, i) == Cardinality({k \in 1..Len(invoked[h]) : invoked[h][k] = i})
IsPrefix(s, t) == Len(s) <= Len(t) /\ \A k \in 1..Len(s) : s[k] = t[k]

\* C1: when no declared effect is whenRendered, one call of connect(host)
\* that constructs InitEffects calls the effect functions in declaration
\* order, front to back, each once at most, and all of them when it returns;
\* the calls are made inside connect: a step that is neither a connect nor
\* a call of run() from outside calls no effect.
C1_ConnectRunsAllInOrder ==
    [][\A h \in hosts :
          (\A i \in Ids : ~Gated(i)) =>
              /\ (connects'[h] # connects[h] /\ ~instance[h]) =>
                    \E n \in 0..NumEffects :
                        /\ invoked'[h] = invoked[h] \o SubSeq(DeclarationOrder, 1, n)
                        /\ outcome'[h] = "returned" => n = NumEffects
              /\ (connects'[h] = connects[h] /\ runs'[h] = runs[h]) =>
                    invoked'[h] = invoked[h]]_vars

C1_Witness ==
    /\ \A i \in Ids : ~Gated(i)
    /\ outcome["A"] = "returned"
    /\ connects["A"] = 1
    /\ invoked["A"] = DeclarationOrder
    /\ Len(invoked["A"]) >= 2

\* C2: while the render-commit signal of a host has not fired, no whenRendered
\* effect of the host has been called, also after connect has returned.
C2_GatedWaitsForRender ==
    \A h \in hosts : \A i \in Ids :
        (Gated(i) /\ commits[h] = 0) => Calls(h, i) = 0

C2_Witness ==
    /\ outcome["A"] = "returned"
    /\ commits["A"] = 0
    /\ \E i \in Ids : Gated(i) /\ Calls("A", i) = 0
    /\ \E i \in Ids : ~Gated(i) /\ Calls("A", i) = 1

\* C3: once the render-commit signal has fired for a connected, live host,
\* each whenRendered effect has been called exactly once for the one pass of
\* run() its connect made (once for each pass, should run() have been called
\* again from outside), and no further signal calls it again.
C3_GatedRunsOnce ==
    [][\A h \in hosts : \A i \in Ids :
          Gated(i) =>
              /\ Calls(h, i)' <= runs'[h]
              /\ (outcome'[h] = "returned" /\ commits'[h] >= 1 /\ ~destroyedUnrendered'[h])
                      => Calls(h, i)' = runs'[h]
              /\ (Fired(h) /\ commits'[h] # commits[h]) => invoked'[h] = invoked[h]]_vars

C3_Witness ==
    /\ outcome["A"] = "returned"
    /\ commits["A"] >= 2
    /\ destroys["A"] = 0
    /\ \E i \in Ids : Gated(i) /\ Calls("A", i) = 1

\* C4: a host destroyed before its render-commit signal fired has none of its
\* whenRendered effects called, also once the signal fires, and keeps no
\* subscription to the render signal.
C4_DestroyedUnrenderedNeverRuns ==
    [][\A h \in hosts :
          destroyedUnrendered'[h] =>
              /\ Listeners(h)' = <<>>
              /\ \A i \in Ids :
                    Gated(i) =>
                        /\ runs'[h] = 1 => Calls(h, i)' = 0
                        /\ runs'[h] = runs[h] => Calls(h, i)' = Calls(h, i)]_vars

C4_Witness ==
    /\ destroyedUnrendered["A"]
    /\ commits["A"] >= 1
    /\ \E i \in Ids : Gated(i) /\ Calls("A", i) = 0
    /\ Listeners("A") = <<>>

\* C5: the teardown function an effect returned is not called before the host
\* is destroyed and has been called exactly once after it, however often the
\* host is destroyed.
C5_TeardownOnceAtDestroy ==
    \A h \in hosts : \A i \in Ids :
        (effects[i].effect.returns = "teardown" /\ Calls(h, i) = 1) =>
            teardownCalls[h][i] = (IF destroys[h] >= 1 THEN 1 ELSE 0)

C5_Witness ==
    /\ destroys["A"] >= 2
    /\ \E i \in Ids : /\ effects[i].effect.returns = "teardown"
                      /\ Calls("A", i) = 1
                      /\ teardownCalls["A"][i] = 1

\* C6: after a host is destroyed no subscription of its effects and no render
\* listener is left, and no step writes a host property, calls a handler's
\* next or requests change detection for it.
C6_DestroyCancelsAll ==
    [][\A h \in hosts :
          destroys[h] >= 1 =>
              /\ streams[h] = {} /\ Listeners(h) = <<>>
              /\ hostContext'[h] = hostContext[h]
              /\ adapterCalls'[h] = adapterCalls[h]
              /\ cdr'[h] = cdr[h]]_vars

C6_Witness ==
    /\ destroys["A"] >= 1
    /\ lastEmit.host = "A"
    /\ ~lastEmit.delivered

\* C7: an effect function that throws when the coordinator calls it does not
\* keep the other effects of the host from being called: once connect(host)
\* is over, every effect that is not whenRendered has been called.
C7_FailureContained ==
    \A h \in hosts :
        connects[h] >= 1 => \A i \in Ids : ~Gated(i) => Calls(h, i) = 1

\* C8: two effects bound to the same property x that each emitted once leave
\* in x the value of the one that emitted last, and every one of the two
\* writes requested markDirty when its effect has markDirty set.
BoundToX(i) == effects[i].binding = "x" /\ ~effects[i].adapter
DirtyCount(S) == Cardinality({i \in S : effects[i].options.markDirty})

C8_LastEmissionWins ==
    \A h \in hosts : \A i, j \in Ids :
        (/\ i # j /\ BoundToX(i) /\ BoundToX(j)
         /\ emitted[h][i] = 1 /\ emitted[h][j] = 1 /\ EmissionsOf(h) = 2
         /\ destroys[h] = 0) =>
            /\ lastEmit.effect \in {i, j}
            /\ hostContext[h]["x"] = lastEmit.value.scalar
            /\ cdr[h].markDirty = DirtyCount({i, j})

C8_Witness ==
    /\ BoundToX(1) /\ BoundToX(2)
    /\ effects[1].options.markDirty /\ effects[2].options.markDirty
    /\ emitted["A"][1] = 1 /\ emitted["A"][2] = 1
    /\ lastEmit.effect = 1 /\ lastEmit.value = Scalar(2)
    /\ hostContext["A"]["x"] = 2
    /\ cdr["A"].markDirty = 2

\* The step in which the stream of effect i of host h emits to its observer.
Emission(h, i) ==
    /\ emitted'[h][i] = emitted[h][i] + 1
    /\ \E a \in streams[h] : a.effect.id = i

\* C9: every value the stream of an effect with a handler emits is passed,
\* with the options of the effect, to the handler's next, and the emission
\* writes no host property, whatever the binding of the effect.
C9_AdapterReceivesNoWrite ==
    [][\A h \in hosts : \A i \in Ids :
          (effects[i].adapter /\ Emission(h, i)) =>
              /\ adapterCalls'[h] = Append(adapterCalls[h],
                     [effect |-> i, value |-> lastEmit'.value, options |-> effects[i].options])
              /\ hostContext' = hostContext]_vars

C9_Witness ==
    /\ lastEmit.host = "A" /\ lastEmit.delivered
    /\ effects[lastEmit.effect].adapter
    /\ effects[lastEmit.effect].binding = "apply"
    /\ lastEmit.value.isObject
    /\ Len(adapterCalls["A"]) = 2
    /\ hostContext["A"]["x"] = Default

\* C10: an object emitted by the stream of an apply effect is written key by
\* key: every key of it that the host owns takes the emitted value, and every
\* other host property keeps its value.
C10_ApplyWritesEachKey ==
    [][\A h \in hosts : \A i \in Ids :
          (/\ effects[i].binding = "apply" /\ ~effects[i].adapter
           /\ Emission(h, i) /\ lastEmit'.value.isObject) =>
              \A k \in Keys :
                  hostContext'[h][k] =
                      IF k \in OwnKeys /\ lastEmit'.value.fields[k] # Absent
                      THEN lastEmit'.value.fields[k]
                      ELSE hostContext[h][k]]_vars

C10_Witness ==
    /\ lastEmit.host = "A" /\ lastEmit.delivered
    /\ effects[lastEmit.effect].binding = "apply" /\ ~effects[lastEmit.effect].adapter
    /\ lastEmit.value = Object([x |-> 1, y |-> 2, z |-> Absent])
    /\ emitted["A"][lastEmit.effect] = 2
    /\ hostContext["A"]["x"] = 1 /\ hostContext["A"]["y"] = 2

\* The console entry of a binding error of effect i of host h.
BindingError(h, i) == [host |-> h, effect |-> i, kind |-> "binding"]

\* C11: when the stream of an apply effect (without handler) emits a value
\* that is not an object, one binding error is reported on the console, every
\* host property keeps its value, and no effect of the host is unsubscribed.
C11_NonObjectApplyFails ==
    [][\A h \in hosts : \A i \in Ids :
          (/\ effects[i].binding = "apply" /\ ~effects[i].adapter
           /\ Emission(h, i) /\ ~lastEmit'.value.isObject) =>
              /\ console' = Append(console, BindingError(h, i))
              /\ hostContext' = hostContext
              /\ streams' = streams
              /\ subs' = subs]_vars

C11_Witness ==
    /\ lastEmit.host = "A" /\ lastEmit.delivered
    /\ effects[lastEmit.effect].binding = "apply" /\ ~effects[lastEmit.effect].adapter
    /\ ~lastEmit.value.isObject
    /\ console = <<BindingError("A", lastEmit.effect)>>
    /\ Cardinality(streams["A"]) = NumEffects
    /\ hostContext["A"]["x"] = Default /\ hostContext["A"]["y"] = Undefined

\* The declared effects that resolution keeps, and what it made of one.
Resolved == {effects[k].effect.id : k \in 1..Len(effects)}
Implicit(i) == declared[i].options.bind = "none" /\ ~declared[i].options.apply

\* C12: an effect declared without bind and without apply under the name of
\* an own property of the host is bound to that property when strict is off
\* and has no binding when strict is on; a declared bind is the binding
\* whatever the name.  The first emission of such an effect writes the
\* property it is bound to, and writes nothing when it has no binding.
C12_BindingResolution ==
    \A i \in Resolved :
        LET target == IF declared[i].options.bind # "none" THEN declared[i].options.bind
                      ELSE IF strict THEN "none" ELSE declared[i].name
        IN  (declared[i].options.bind # "none" \/ (Implicit(i) /\ declared[i].name \in OwnKeys)) =>
                /\ Meta(i).binding = target
                /\ \A h \in hosts :
                      /\ \A a \in streams[h] : a.effect.id = i => a.binding = target
                      /\ (/\ lastEmit.host = h /\ lastEmit.effect = i /\ lastEmit.delivered
                          /\ EmissionsOf(h) = 1) =>
                             \A k \in Keys :
                                 hostContext[h][k] =
                                     IF k = target THEN lastEmit.value.scalar
                                     ELSE NewHost[k]

\* Implicit binding to x, strict off: the emitted value is in x.
C12_Witness ==
    /\ ~strict /\ Implicit(1) /\ declared[1].name = "x"
    /\ lastEmit.host = "A" /\ lastEmit.effect = 1 /\ lastEmit.delivered
    /\ EmissionsOf("A") = 1
    /\ lastEmit.value = Scalar(2)
    /\ hostContext["A"]["x"] = 2

\* C13: an effect declared with bind together with apply is reported as a
\* configuration error when the effects of a host are resolved, and is not
\* initialized: it is never called, while every other effect of the host
\* that is not whenRendered has been called once when connect is over.
ConfigurationErrors(h, i) ==
    Cardinality({n \in 1..Len(console) :
                    console[n] = [host |-> h, effect |-> i, kind |-> "configuration"]})

C13_MisconfiguredAloneAborted ==
    \A h \in hosts : \A i \in 1..Len(declared) :
        (misconfigured(declared[i]) /\ connects[h] >= 1) =>
            /\ ConfigurationErrors(h, i) = 1
            /\ Calls(h, i) = 0
            /\ \A j \in Resolved : ~Meta(j).options.whenRendered => Calls(h, j) = 1

C13_Witness ==
    /\ misconfigured(declared[1]) /\ connects["A"] = 1
    /\ ConfigurationErrors("A", 1) = 1
    /\ Len(invoked["A"]) = NumEffects - 1
    /\ lastEmit.host = "A" /\ lastEmit.effect = 2 /\ lastEmit.delivered

\* C14: when the stream of an effect bound to one property emits and the host
\* does not own that property, one binding error is reported on the console,
\* no host property is created or written, and no effect of the host is
\* unsubscribed: the host keeps its InitEffects and its teardown scope.
C14_MissingPropertyFails ==
    [][\A h \in hosts : \A i \in Ids :
          (/\ effects[i].binding \in Keys /\ ~effects[i].adapter
           /\ Emission(h, i) /\ hostContext[h][effects[i].binding] = Absent) =>
              /\ console' = Append(console, BindingError(h, i))
              /\ hostContext' = hostContext
              /\ streams' = streams
              /\ subs' = subs
              /\ instance' = instance]_vars

C14_Witness ==
    /\ lastEmit.host = "A" /\ lastEmit.delivered
    /\ effects[lastEmit.effect].binding = "z" /\ ~effects[lastEmit.effect].adapter
    /\ emitted["A"][lastEmit.effect] = 2
    /\ console = <<BindingError("A", lastEmit.effect), BindingError("A", lastEmit.effect)>>
    /\ hostContext["A"]["z"] = Absent
    /\ Cardinality(streams["A"]) = NumEffects

\* The step in which the stream of effect i of host h fails to its observer,
\* and the effects of h whose stream has failed.
ErrorDelivered(h, i) ==
    /\ i \in sources[h] /\ i \notin sources'[h]
    /\ \E a \in streams[h] : a.effect.id = i
Errored(h) == {i \in Ids : Calls(h, i) >= 1 /\ i \notin sources[h]}

\* C15: an error of the stream of an effect is reported on the console and
\* ends the subscription of that effect only: the other subscriptions of the
\* host and its teardown scope stay open, and an effect bound to x whose
\* sibling has failed still writes what it emits to x.
C15_StreamErrorClosesOnlyItself ==
    [][\A h \in hosts : \A i \in Ids :
          /\ ErrorDelivered(h, i) =>
                /\ console' = Append(console, [host |-> h, effect |-> i, kind |-> "stream"])
                /\ streams'[h] = {a \in streams[h] : a.effect.id # i}
                /\ Subs(h)'.closed = Subs(h).closed
                /\ hostContext' = hostContext
          /\ (Emission(h, i) /\ BoundToX(i) /\ Errored(h) # {}) =>
                hostContext'[h]["x"] = lastEmit'.value.scalar]_vars

C15_Witness ==
    /\ Errored("A") = {1}
    /\ console = <<[host |-> "A", effect |-> 1, kind |-> "stream"]>>
    /\ destroys["A"] = 0
    /\ lastEmit.host = "A" /\ lastEmit.effect = 2 /\ lastEmit.delivered
    /\ BoundToX(2) /\ lastEmit.value = Scalar(2)
    /\ hostContext["A"]["x"] = 2
    /\ Cardinality(streams["A"]) = NumEffects - 1

\* Whether the emission of effect i of host h that lastEmit' records wrote.
Written(h, i) ==
    \/ effects[i].binding \in Keys /\ hostContext[h][effects[i].binding] # Absent
    \/ effects[i].binding = "apply" /\ lastEmit'.value.isObject

\* C16: an emission of an effect (without handler) that is written to the
\* host requests markDirty once when the effect has markDirty set and
\* detectChanges once when it has detectChanges set, and requests nothing
\* when it has neither; an emission that writes nothing (binding error, no
\* binding) requests nothing.
C16_ChangeDetectionFollowsWrites ==
    [][\A h \in hosts : \A i \in Ids :
          (/\ ~effects[i].adapter /\ Emission(h, i)
           /\ ~(effects[i].options.markDirty /\ effects[i].options.detectChanges)) =>
              cdr'[h] =
                  [markDirty |-> cdr[h].markDirty
                        + (IF Written(h, i) /\ effects[i].options.markDirty THEN 1 ELSE 0),
                   detectChanges |-> cdr[h].detectChanges
                        + (IF Written(h, i) /\ effects[i].options.detectChanges THEN 1 ELSE 0)]]_vars

\* A binding error of a markDirty effect, then a write of a markDirty effect.
C16_Witness ==
    /\ effects[1].binding = "z" /\ effects[1].options.markDirty
    /\ BoundToX(2) /\ effects[2].options.markDirty
    /\ emitted["A"][1] = 1 /\ emitted["A"][2] = 1
    /\ lastEmit.host = "A" /\ lastEmit.effect = 2 /\ lastEmit.delivered
    /\ console = <<BindingError("A", 1)>>
    /\ hostContext["A"]["x"] = lastEmit.value.scalar
    /\ cdr["A"] = [markDirty |-> 1, detectChanges |-> 0]

CallsIn(s, i) == Cardinality({k \in 1..Len(s) : s[k] = i})

\* C17: the render gate of a host fires at most once and stays fired; the
\* step in which it fires is a view commit that calls every listener waiting
\* on it once and leaves none waiting; a later commit calls nothing; and a
\* connect that returns after the gate has fired has called every
\* whenRendered effect once, leaving no listener waiting.
C17_GateSingleShotReplays ==
    [][\A h \in hosts :
          /\ Fired(h) => Fired(h)'
          /\ (~Fired(h) /\ Fired(h)') =>
                /\ commits[h] = 0 /\ commits'[h] = 1
                /\ Listeners(h)' = <<>>
                /\ \A i \in Ids :
                      CallsIn(invoked'[h], i) = CallsIn(invoked[h], i)
                          + Cardinality({a \in Range(Listeners(h)) : a.effect.id = i})
          /\ (Fired(h) /\ commits'[h] # commits[h]) =>
                invoked'[h] = invoked[h] /\ Listeners(h)' = Listeners(h)
          /\ (Fired(h) /\ ~instance[h] /\ connects'[h] # connects[h]
              /\ outcome'[h] = "returned") =>
                /\ Listeners(h)' = <<>>
                /\ \A i \in Ids : Gated(i) => CallsIn(invoked'[h], i) = 1]_vars

\* Connected after the first commit: the whenRendered effect declared first
\* was called at once, before the immediate effect declared after it.
C17_Witness ==
    /\ Fired("A") /\ commits["A"] = 1 /\ outcome["A"] = "returned"
    /\ Gated(1) /\ ~Gated(2)
    /\ Len(invoked["A"]) >= 2 /\ invoked["A"][1] = 1 /\ invoked["A"][2] = 2
    /\ Listeners("A") = <<>>

\* C18: the render gate belongs to one host: a view commit of a host changes
\* neither the gate nor the listeners nor the calls of another host, and a
\* host whose own view has not been committed has none of its whenRendered
\* effects called, whatever the other hosts have committed.  This is so
\* where every host is given a renderer of its own, and not where one
\* renderer is above the hosts (a commit of A then calls the whenRendered
\* effects of B): which of the two the injector does is decided by the
\* providers of ViewRenderer, which are not among the sources.
C18_GatePerHost ==
    [][\A h \in hosts :
          /\ \A g \in hosts \ {h} :
                commits'[g] # commits[g] =>
                    /\ Fired(h)' = Fired(h)
                    /\ Listeners(h)' = Listeners(h)
                    /\ invoked'[h] = invoked[h]
          /\ commits'[h] = 0 =>
                \A i \in Ids : Gated(i) => CallsIn(invoked'[h], i) = 0]_vars

\* B has committed and called its whenRendered effect; A, connected as well,
\* still waits.
C18_Witness ==
    /\ connects["A"] = 1 /\ connects["B"] = 1
    /\ commits["A"] = 0 /\ commits["B"] = 1
    /\ \E i \in Ids : Gated(i) /\ Calls("B", i) = 1 /\ Calls("A", i) = 0
    /\ Listeners("A") # <<>> /\ Listeners("B") = <<>>

\* The whenRendered effects in declaration order, and the effects whose
\* members of a teardown scope are not gate listeners, in the order they joined.
GatedOrder == SelectSeq(DeclarationOrder, LAMBDA i : Gated(i))
Joined(ms, r) ==
    LET own == SelectSeq(ms, LAMBDA m : m.kind # "listener" /\ Gated(m.effect) /\ m.run = r)
    IN  [k \in 1..Len(own) |-> own[k].effect]
RECURSIVE Times(_, _)
Times(s, n) == IF n = 0 THEN <<>> ELSE s \o Times(s, n - 1)
Increasing(s) == \A k \in 1..(Len(s) - 1) : s[k] < s[k + 1]

\* C19: the step in which the render gate of a connected, live host fires
\* calls all its whenRendered effects, in declaration order, and what each
\* of them hands to the teardown scope has joined it before the next one is
\* called: the members they leave are in declaration order as well.
C19_GatedInDeclarationOrder ==
    [][\A h \in hosts :
          (~Fired(h) /\ Fired(h)' /\ outcome[h] = "returned" /\ ~Subs(h).closed) =>
              /\ invoked'[h] = invoked[h] \o Times(GatedOrder, runs[h])
              /\ \A r \in 1..runs[h] :
                    /\ Increasing(Joined(Subs(h)'.teardowns, r))
                    /\ Len(Joined(Subs(h)'.teardowns, r)) =
                           Cardinality({i \in Ids : Gated(i) /\ effects[i].effect.returns
                                            \in {"teardown", "subscription", "observable"}})]_vars

\* Two whenRendered effects that each left a member in the scope.
C19_Witness ==
    /\ outcome["A"] = "returned" /\ Fired("A") /\ commits["A"] = 1 /\ destroys["A"] = 0
    /\ Gated(1) /\ Gated(2)
    /\ effects[1].effect.returns = "teardown" /\ effects[2].effect.returns = "observable"
    /\ Len(invoked["A"]) >= 2 /\ invoked["A"][1] = 1 /\ invoked["A"][2] = 2
    /\ Len(Joined(Subs("A").teardowns, 1)) >= 2

\* C20 as stated: a connect of a host whose InitEffects cannot be provided,
\* and every connect of a host after its first, fails.
C20_MisuseIsFatal ==
    \A h \in hosts :
        (connects[h] >= 2 \/ (connects[h] >= 1 /\ h \notin provided)) =>
            outcome[h] = "threw"

\* C20 as amended: a connect of a host whose InitEffects cannot be provided
\* fails at that call and calls no effect; a connect of a host after one
\* that returned is not detected: it returns normally, calls no effect function again and leaves
\* the teardown scope and the gate listeners of the host as they were.
C20_SecondConnectIsSilent ==
    [][\A h \in hosts :
          connects'[h] # connects[h] =>
              /\ h \notin provided =>
                    /\ outcome'[h] = "threw"
                    /\ invoked'[h] = <<>> /\ ~instance'[h]
              /\ (connects[h] >= 1 /\ outcome[h] = "returned") =>
                    /\ outcome'[h] = "returned"
                    /\ invoked'[h] = invoked[h]
                    /\ Subs(h)' = Subs(h) /\ Listeners(h)' = Listeners(h)
                    /\ instance'[h]]_vars

C20_Witness ==
    /\ connects["A"] = 2 /\ outcome["A"] = "returned"
    /\ \A i \in Ids : ~Gated(i)
    /\ invoked["A"] = DeclarationOrder
    /\ currentContext = {}

\* The effects that return a plain value, what such an effect writes to key
\* k of a host under its binding (Absent: nothing), and whether its write fails.
PlainValue(i) == effects[i].effect.returns \in {"value", "object"}
ValueWritten(i, k) ==
    IF k \notin OwnKeys THEN Absent
    ELSE IF effects[i].effect.returns = "value"
         THEN (IF effects[i].binding = k THEN ReturnedValue.scalar ELSE Absent)
         ELSE (IF effects[i].binding = "apply" THEN ReturnedObject.fields[k] ELSE Absent)
ValueFails(i) ==
    \/ effects[i].binding = "apply" /\ effects[i].effect.returns = "value"
    \/ effects[i].binding \in Keys \ OwnKeys

C23_ReentrantCancelOnce ==
    \A h \in hosts :
        /\ \A i \in Ids :
              effects[i].effect.returns \in {"teardown", "canceller"} =>
                  teardownCalls[h][i] = (IF destroys[h] >= 1 THEN Calls(h, i) ELSE 0)
        /\ destroys[h] >= 1 =>
              /\ Subs(h) = [closed |-> TRUE, teardowns |-> <<>>]
              /\ streams[h] = {} /\ Listeners(h) = <<>>

\* The canceller was declared first, so it cancelled the scope again before
\* the teardown function declared after it was called.
C23_Witness ==
    /\ effects[1].effect.returns = "canceller" /\ ~Gated(1)
    /\ effects[2].effect.returns = "teardown" /\ ~Gated(2)
    /\ destroys["A"] >= 2
    /\ teardownCalls["A"][1] = 1 /\ teardownCalls["A"][2] = 1
    /\ Subs("A").closed

\* C24: reading a projected property reads the host property, and a binding
\* write tells the subscribers of the cell in subscription order.  Both are
\* what project and projectionSet are defined to do, from the contract of
\* the projection (the State class is not among the sources), so no formula
\* over this model can tell the sentence from its negation.

\* Effects that only have a side effect: a stream without binding, or nothing
\* returned at all.
Unbound(i) == effects[i].effect.returns = "observable" /\ effects[i].binding = "none"
             /\ ~effects[i].adapter
Void(i) == effects[i].effect.returns = "undefined"
Members(h, i) ==
    {n \in 1..Len(Subs(h).teardowns) :
        Subs(h).teardowns[n].effect = i /\ Subs(h).teardowns[n].kind # "listener"}

\* C25: a stream without binding is subscribed when its effect is called and
\* stays in the teardown scope while the host lives; an effect that returns
\* nothing leaves no member in the scope, no stream and no observer, whatever
\* its binding; and on a host whose effects are all of these two kinds no
\* emission and no call writes a host property, requests change detection or
\* reports a binding error.
C25_SideEffectsWriteNothing ==
    \A h \in hosts :
        /\ \A i \in Ids :
              /\ (Unbound(i) /\ Calls(h, i) = 1 /\ ~Subs(h).closed) =>
                    /\ Cardinality({a \in streams[h] : a.effect.id = i}) = 1
                    /\ Cardinality(Members(h, i)) = 1
              /\ Void(i) =>
                    /\ Members(h, i) = {} /\ i \notin sources[h]
                    /\ \A a \in streams[h] : a.effect.id # i
        /\ (\A i \in Ids : Unbound(i) \/ Void(i)) =>
              /\ hostContext[h] = NewHost
              /\ cdr[h] = [markDirty |-> 0, detectChanges |-> 0]
              /\ console = <<>>

\* An effect bound to x that returned nothing, beside a stream without
\* binding that has emitted twice to its observer.
C25_Witness ==
    /\ Void(1) /\ effects[1].binding = "x" /\ Calls("A", 1) = 1
    /\ \A i \in 2..NumEffects : Unbound(i)
    /\ emitted["A"][2] = 2 /\ lastEmit.delivered /\ lastEmit.value = Scalar(2)
    /\ hostContext["A"]["x"] = Default
    /\ Cardinality(streams["A"]) = NumEffects - 1

\* C26: every call of an effect function of a host finds the projection of
\* the host built, and the first call, when connect(host) itself makes it
\* (an effect that is not whenRendered), finds the host registered in
\* currentContext.
C26_ProjectionBeforeEffects ==
    \A h \in hosts :
        /\ \A n \in 1..Len(observed[h]) : observed[h][n].projected
        /\ (Len(observed[h]) >= 1 /\ ~Gated(observed[h][1].effect))
               => h \in observed[h][1].context

\* The immediate effect was called inside connect, the whenRendered effect at
\* the commit, after connect had cleared the context.
C26_Witness ==
    /\ outcome["A"] = "returned" /\ ~Gated(1) /\ Gated(2)
    /\ Len(observed["A"]) >= 2
    /\ observed["A"][1] = [effect |-> 1, context |-> {"A"}, projected |-> TRUE,
                           destroyed |-> FALSE]
    /\ observed["A"][2] = [effect |-> 2, context |-> {}, projected |-> TRUE,
                           destroyed |-> FALSE]

\* C27: the teardown scope belongs to one host: the destroy of a host leaves
\* the scope, the stream observers, the render listeners and the teardown
\* calls of every other host as they were, and a teardown function of a host
\* has been called only if that host itself was destroyed.
C27_ScopePerHost ==
    [][\A h \in hosts :
          /\ \A g \in hosts \ {h} :
                destroys'[g] # destroys[g] =>
                    /\ Subs(h)' = Subs(h)
                    /\ streams'[h] = streams[h]
                    /\ Listeners(h)' = Listeners(h)
                    /\ teardownCalls'[h] = teardownCalls[h]
          /\ destroys'[h] = 0 =>
                /\ ~Subs(h)'.closed
                /\ \A i \in Ids : teardownCalls'[h][i] = 0]_vars

\* A is destroyed and its teardown function called; B, not destroyed, still
\* has its members, and its stream has just emitted to its observer.
C27_Witness ==
    /\ destroys["A"] = 1 /\ destroys["B"] = 0 /\ connects["B"] = 1
    /\ \E i \in Ids : teardownCalls["A"][i] = 1 /\ teardownCalls["B"][i] = 0
    /\ Len(Subs("B").teardowns) = NumEffects /\ Subs("A").closed
    /\ lastEmit.host = "B" /\ lastEmit.delivered

\* C28: no effect function of a host is called once the host is destroyed:
\* every call finds the teardown scope of its host still open, also when an
\* effect called earlier in the same run loop or the same render
\* notification had the host destroyed.
C28_NoCallAfterDestroy ==
    \A h \in hosts : \A n \in 1..Len(observed[h]) : ~observed[h][n].destroyed

\* C29: between connect calls currentContext is empty: once connect(host) has
\* finished, by returning or by throwing, the set holds no host.  Every
\* state of the model lies between two handlers, so no connect is in
\* progress in any of them.
C29_ContextEmptyBetweenConnects == currentContext = {}

\* C30: during connect(A) every effect the initializer of A calls at once
\* finds A in currentContext, also after an earlier effect of A constructed
\* host B, whose connect(B) ran to completion in between.
C30_ContextSurvivesNesting ==
    \A h \in hosts : \A n \in 1..Len(observed[h]) :
        ~Gated(observed[h][n].effect) => h \in observed[h][n].context

\* What the error callbacks of the effects is log, in order, and the effects
\* whose listeners wait on the gate of h.
GateLog(h, is) == [n \in 1..Len(is) |-> [host |-> h, effect |-> is[n], kind |-> "gate"]]
ListenerIds(h) == [n \in 1..Len(Listeners(h)) |-> Listeners(h)[n].effect.id]

\* C31: when the render-timing stream of a host ends with an error instead
\* of its notification, no whenRendered effect of the host is ever called;
\* the step that delivers the error logs it once for every listener waiting,
\* leaves none waiting, and calls no effect, throws nothing and leaves the
\* streams, the properties and the teardown scope of the host as they were;
\* and a connect after the error returns, calls the effects that are not
\* whenRendered in declaration order, subscribes to their streams and logs
\* the error once for every whenRendered effect.
C31_GateErrorIsLoggedOnly ==
    [][\A h \in hosts :
          /\ GateFailed(h)' => \A i \in Ids : Gated(i) => CallsIn(invoked'[h], i) = 0
          /\ (~GateFailed(h) /\ GateFailed(h)') =>
                /\ console' = console \o GateLog(h, ListenerIds(h))
                /\ Listeners(h)' = <<>>
                /\ invoked' = invoked /\ outcome' = outcome
                /\ streams' = streams /\ hostContext' = hostContext
                /\ Subs(h)'.closed = Subs(h).closed
          /\ (GateFailed(h) /\ connects[h] = 0 /\ connects'[h] = 1) =>
                /\ outcome'[h] = "returned"
                /\ invoked'[h] = SelectSeq(DeclarationOrder, LAMBDA i : ~Gated(i))
                /\ console' = console \o GateLog(h, SelectSeq(DeclarationOrder,
                                                              LAMBDA i : Gated(i)))
                /\ Listeners(h)' = <<>>
                /\ \A i \in Ids :
                      (~Gated(i) /\ effects[i].effect.returns = "observable")
                          => \E a \in streams'[h] : a.effect.id = i]_vars

\* The gate of A failed and A is connected: the error was logged for the
\* whenRendered effect 2, effect 1 alone was called, and its stream has just
\* written.
C31_Witness ==
    /\ GateFailed("A") /\ connects["A"] = 1 /\ outcome["A"] = "returned"
    /\ ~Gated(1) /\ Gated(2)
    /\ invoked["A"] = <<1>>
    /\ console = <<[host |-> "A", effect |-> 2, kind |-> "gate"]>>
    /\ lastEmit.host = "A" /\ lastEmit.effect = 1 /\ lastEmit.delivered
    /\ hostContext["A"]["x"] = lastEmit.value.scalar

====
